---- MODULE Spec2Model ----
(***************************************************************************)
(* Model of the hecs query core (src/src/query.rs): the query descriptor   *)
(* algebra (Fetch::access / borrow / new / release / get), the QueryBorrow *)
(* handle (iter, iter_batched, with / without, Drop) and the iterators     *)
(* QueryIter, ChunkIter, BatchedIter and Batch.                            *)
(*                                                                         *)
(* The archetype (crate::archetype::Archetype) is an external collaborator *)
(* of this file: its has / get / len / entities / borrow / release methods *)
(* are modelled from the contract the specification states for them.       *)
(***************************************************************************)
EXTENDS Integers, Sequences, FiniteSets, Bags, TLC

\* ------------------------------------------------------------------ bounds
MaxArch == 2
MaxRows == 3
MaxBatchSize == 2
MaxBatchIndex == 3
MaxTransforms == 1
MaxWorkers == 2

\* u32 arithmetic of BatchedIter (batch_size, batch, archetype.len()),
\* scaled down to WordBits bits
WordBits == 4
U32 == 2 ^ WordBits

\* ------------------------------------------------------- component types
Types == {"A", "B"}
NoType == "-"

\* -------------------------------------------------------------- Access
\* Option<Access>: None < Some(Iterate) < Some(Read) < Some(Write)
AccessNone == 0
Iterate == 1
Read == 2
Write == 3

AccessMax(x, y) == IF x >= y THEN x ELSE y

\* --------------------------------------------------- query descriptors
\* A descriptor (the type Q of QueryBorrow<Q>) is a tree; every node is a
\* record [k, t, sub] so that all descriptors are comparable.
QRead(t) == [k |-> "Read", t |-> t, sub |-> <<>>]
QWrite(t) == [k |-> "Write", t |-> t, sub |-> <<>>]
QOption(q) == [k |-> "Option", t |-> NoType, sub |-> <<q>>]
QWithout(t, q) == [k |-> "Without", t |-> t, sub |-> <<q>>]
QWith(t, q) == [k |-> "With", t |-> t, sub |-> <<q>>]
QTuple(qs) == [k |-> "Tuple", t |-> NoType, sub |-> qs]

\* ------------------------------------------------------------ archetype
\* An archetype is [types, len, entities]; its per-column borrow state is
\* kept apart (it is the only part of an archetype a query changes).
Has(a, t) == t \in a.types

ArchLen(a) == a.len

ArchEntities(a) == a.entities

\* archetype.get::<T>(): the base pointer of the T column, if any
NullPtr == [arch |-> 0, col |-> NoType]
ColumnPtr(i, a, t) == IF Has(a, t) THEN [arch |-> i, col |-> t] ELSE NullPtr

\* Per-column dynamic borrow state: r shared borrows, w an exclusive one.
FreeColumn == [r |-> 0, w |-> FALSE]

\* The state threaded through a walk that may panic.
\* ok = FALSE: a panic has unwound the walk, nothing further executes.

\* archetype.borrow::<T>() — shared; panics if borrowed exclusively;
\* no-op on a column the archetype lacks
ArchBorrow(a, s, t) ==
  IF ~s.ok \/ ~Has(a, t) THEN s
  ELSE IF s.cols[t].w THEN [s EXCEPT !.ok = FALSE]
  ELSE [s EXCEPT !.cols[t].r = @ + 1]

\* archetype.borrow_mut::<T>() — exclusive; panics if any borrow is live
ArchBorrowMut(a, s, t) ==
  IF ~s.ok \/ ~Has(a, t) THEN s
  ELSE IF s.cols[t].w \/ s.cols[t].r > 0 THEN [s EXCEPT !.ok = FALSE]
  ELSE [s EXCEPT !.cols[t].w = TRUE]

\* archetype.release::<T>()
ArchRelease(a, cols, t) ==
  IF ~Has(a, t) THEN cols ELSE [cols EXCEPT ![t].r = @ - 1]

\* archetype.release_mut::<T>()
ArchReleaseMut(a, cols, t) ==
  IF ~Has(a, t) THEN cols ELSE [cols EXCEPT ![t].w = FALSE]

\* ------------------------------------------------------- Fetch::access
RECURSIVE FetchAccess(_, _)
RECURSIVE TupleAccess(_, _, _, _)

\* tuple_impl access: access = Iterate; access = access.max(member?) ...
TupleAccess(qs, i, a, acc) ==
  IF i > Len(qs) THEN acc
  ELSE LET m == FetchAccess(qs[i], a)
       IN IF m = AccessNone THEN AccessNone
          ELSE TupleAccess(qs, i + 1, a, AccessMax(acc, m))

\* FetchAccess with the has::<T>() test of FetchWithout::access left out
FetchAccessWithoutUnfiltered(q, a) ==
  CASE q.k = "Read" -> IF Has(a, q.t) THEN Read ELSE AccessNone
    [] q.k = "Write" -> IF Has(a, q.t) THEN Write ELSE AccessNone
    [] q.k = "Option" ->
         LET x == FetchAccess(q.sub[1], a)
         IN IF x = AccessNone THEN Iterate ELSE x
    [] q.k = "Without" -> FetchAccess(q.sub[1], a)
    [] q.k = "With" ->
         IF Has(a, q.t) THEN FetchAccess(q.sub[1], a) ELSE AccessNone
    [] q.k = "Tuple" -> TupleAccess(q.sub, 1, a, Iterate)

FetchAccess(q, a) ==
  CASE q.k = "Read" -> IF Has(a, q.t) THEN Read ELSE AccessNone
    [] q.k = "Write" -> IF Has(a, q.t) THEN Write ELSE AccessNone
    [] q.k = "Option" ->
         LET x == FetchAccess(q.sub[1], a)
         IN IF x = AccessNone THEN Iterate ELSE x
    [] q.k = "Without" ->
         IF Has(a, q.t) THEN AccessNone ELSE FetchAccess(q.sub[1], a)
    [] q.k = "With" ->
         IF Has(a, q.t) THEN FetchAccess(q.sub[1], a) ELSE AccessNone
    [] q.k = "Tuple" -> TupleAccess(q.sub, 1, a, Iterate)

\* ------------------------------------------------------- Fetch::borrow
RECURSIVE FetchBorrow(_, _, _)
RECURSIVE TupleBorrow(_, _, _, _)

\* FetchBorrow with FetchWrite::borrow calling archetype.borrow (shared)
FetchBorrowShared(q, a, s) ==
  CASE q.k = "Read" -> ArchBorrow(a, s, q.t)
    [] q.k = "Write" -> ArchBorrow(a, s, q.t)
    [] q.k = "Option" -> FetchBorrow(q.sub[1], a, s)
    [] q.k = "Without" -> FetchBorrow(q.sub[1], a, s)
    [] q.k = "With" -> FetchBorrow(q.sub[1], a, s)
    [] q.k = "Tuple" -> TupleBorrow(q.sub, 1, a, s)

\* FetchBorrow with TryFetch::borrow not forwarding to the inner fetch
FetchBorrowSkipOption(q, a, s) ==
  CASE q.k = "Read" -> ArchBorrow(a, s, q.t)
    [] q.k = "Write" -> ArchBorrowMut(a, s, q.t)
    [] q.k = "Option" -> s
    [] q.k = "Without" -> FetchBorrow(q.sub[1], a, s)
    [] q.k = "With" -> FetchBorrow(q.sub[1], a, s)
    [] q.k = "Tuple" -> TupleBorrow(q.sub, 1, a, s)

\* FetchBorrow with FetchWith::borrow also borrowing the T column (shared)
FetchBorrowFilterColumn(q, a, s) ==
  CASE q.k = "Read" -> ArchBorrow(a, s, q.t)
    [] q.k = "Write" -> ArchBorrowMut(a, s, q.t)
    [] q.k = "Option" -> FetchBorrow(q.sub[1], a, s)
    [] q.k = "Without" -> FetchBorrow(q.sub[1], a, s)
    [] q.k = "With" -> ArchBorrow(a, FetchBorrow(q.sub[1], a, s), q.t)
    [] q.k = "Tuple" -> TupleBorrow(q.sub, 1, a, s)

\* tuple_impl borrow: every member, in order
TupleBorrow(qs, i, a, s) ==
  IF i > Len(qs) THEN s
  ELSE TupleBorrow(qs, i + 1, a, FetchBorrow(qs[i], a, s))

FetchBorrow(q, a, s) ==
  CASE q.k = "Read" -> ArchBorrow(a, s, q.t)
    [] q.k = "Write" -> ArchBorrowMut(a, s, q.t)
    [] q.k = "Option" -> FetchBorrow(q.sub[1], a, s)
    [] q.k = "Without" -> FetchBorrow(q.sub[1], a, s)
    [] q.k = "With" -> FetchBorrow(q.sub[1], a, s)
    [] q.k = "Tuple" -> TupleBorrow(q.sub, 1, a, s)

\* ------------------------------------------------------ Fetch::release
RECURSIVE FetchRelease(_, _, _)
RECURSIVE TupleRelease(_, _, _, _)

TupleRelease(qs, i, a, cols) ==
  IF i > Len(qs) THEN cols
  ELSE TupleRelease(qs, i + 1, a, FetchRelease(qs[i], a, cols))

FetchRelease(q, a, cols) ==
  CASE q.k = "Read" -> ArchRelease(a, cols, q.t)
    [] q.k = "Write" -> ArchReleaseMut(a, cols, q.t)
    [] q.k = "Option" -> FetchRelease(q.sub[1], a, cols)
    [] q.k = "Without" -> FetchRelease(q.sub[1], a, cols)
    [] q.k = "With" -> FetchRelease(q.sub[1], a, cols)
    [] q.k = "Tuple" -> TupleRelease(q.sub, 1, a, cols)

\* ---------------------------------------------------------- Fetch::new
\* A fetch is a record [k, ptr, sub]; NoFetch is Option<Self>::None.
NoFetch == [k |-> "None", ptr |-> NullPtr, sub |-> <<>>]
LeafFetch(kind, p) == [k |-> kind, ptr |-> p, sub |-> <<>>]
WrapFetch(kind, fs) == [k |-> kind, ptr |-> NullPtr, sub |-> fs]

RECURSIVE FetchNew(_, _, _)
RECURSIVE TupleNew(_, _, _, _, _)

\* FetchNew with TryFetch::new returning None where the inner fetch's new does
FetchNewOptionExcludes(q, i, a) ==
  CASE q.k = "Read" ->
         IF Has(a, q.t) THEN LeafFetch("FetchRead", ColumnPtr(i, a, q.t))
         ELSE NoFetch
    [] q.k = "Write" ->
         IF Has(a, q.t) THEN LeafFetch("FetchWrite", ColumnPtr(i, a, q.t))
         ELSE NoFetch
    [] q.k = "Option" ->
         LET f == FetchNew(q.sub[1], i, a)
         IN IF f = NoFetch THEN NoFetch
            ELSE WrapFetch("TryFetch", <<f>>)
    [] q.k = "Without" ->
         IF Has(a, q.t) THEN NoFetch
         ELSE LET f == FetchNew(q.sub[1], i, a)
              IN IF f = NoFetch THEN NoFetch
                 ELSE WrapFetch("FetchWithout", <<f>>)
    [] q.k = "With" ->
         IF ~Has(a, q.t) THEN NoFetch
         ELSE LET f == FetchNew(q.sub[1], i, a)
              IN IF f = NoFetch THEN NoFetch
                 ELSE WrapFetch("FetchWith", <<f>>)
    [] q.k = "Tuple" -> TupleNew(q.sub, 1, i, a, <<>>)

\* FetchNew with the has::<T>() test of FetchWithout::new left out
FetchNewUnfiltered(q, i, a) ==
  CASE q.k = "Read" ->
         IF Has(a, q.t) THEN LeafFetch("FetchRead", ColumnPtr(i, a, q.t))
         ELSE NoFetch
    [] q.k = "Write" ->
         IF Has(a, q.t) THEN LeafFetch("FetchWrite", ColumnPtr(i, a, q.t))
         ELSE NoFetch
    [] q.k = "Option" ->
         LET f == FetchNew(q.sub[1], i, a)
         IN IF f = NoFetch THEN WrapFetch("TryFetch", <<>>)
            ELSE WrapFetch("TryFetch", <<f>>)
    [] q.k = "Without" ->
         LET f == FetchNew(q.sub[1], i, a)
         IN IF f = NoFetch THEN NoFetch
            ELSE WrapFetch("FetchWithout", <<f>>)
    [] q.k = "With" ->
         IF ~Has(a, q.t) THEN NoFetch
         ELSE LET f == FetchNew(q.sub[1], i, a)
              IN IF f = NoFetch THEN NoFetch
                 ELSE WrapFetch("FetchWith", <<f>>)
    [] q.k = "Tuple" -> TupleNew(q.sub, 1, i, a, <<>>)

\* tuple_impl new: Some((A::new(archetype)?, B::new(archetype)?, ...))
TupleNew(qs, n, i, a, fs) ==
  IF n > Len(qs) THEN WrapFetch("Tuple", fs)
  ELSE LET f == FetchNew(qs[n], i, a)
       IN IF f = NoFetch THEN NoFetch
          ELSE TupleNew(qs, n + 1, i, a, Append(fs, f))

FetchNew(q, i, a) ==
  CASE q.k = "Read" ->
         IF Has(a, q.t) THEN LeafFetch("FetchRead", ColumnPtr(i, a, q.t))
         ELSE NoFetch
    [] q.k = "Write" ->
         IF Has(a, q.t) THEN LeafFetch("FetchWrite", ColumnPtr(i, a, q.t))
         ELSE NoFetch
    [] q.k = "Option" ->
         LET f == FetchNew(q.sub[1], i, a)
         IN IF f = NoFetch THEN WrapFetch("TryFetch", <<>>)
            ELSE WrapFetch("TryFetch", <<f>>)
    [] q.k = "Without" ->
         IF Has(a, q.t) THEN NoFetch
         ELSE LET f == FetchNew(q.sub[1], i, a)
              IN IF f = NoFetch THEN NoFetch
                 ELSE WrapFetch("FetchWithout", <<f>>)
    [] q.k = "With" ->
         IF ~Has(a, q.t) THEN NoFetch
         ELSE LET f == FetchNew(q.sub[1], i, a)
              IN IF f = NoFetch THEN NoFetch
                 ELSE WrapFetch("FetchWith", <<f>>)
    [] q.k = "Tuple" -> TupleNew(q.sub, 1, i, a, <<>>)

\* ------------------------------------------------------ Fetch::DANGLING
RECURSIVE FetchDangling(_)
FetchDangling(q) ==
  CASE q.k = "Read" -> LeafFetch("FetchRead", NullPtr)
    [] q.k = "Write" -> LeafFetch("FetchWrite", NullPtr)
    [] q.k = "Option" -> WrapFetch("TryFetch", <<>>)
    [] q.k = "Without" -> WrapFetch("FetchWithout", <<FetchDangling(q.sub[1])>>)
    [] q.k = "With" -> WrapFetch("FetchWith", <<FetchDangling(q.sub[1])>>)
    [] q.k = "Tuple" ->
         WrapFetch("Tuple", [n \in 1..Len(q.sub) |-> FetchDangling(q.sub[n])])

\* ---------------------------------------------------------- Fetch::get
\* An item is a record [k, cell, sub]; a leaf view names the cell it
\* points at: (archetype, column, row).
NoCell == [arch |-> 0, col |-> NoType, row |-> 0]
RECURSIVE FetchGet(_, _)
FetchGet(f, n) ==
  CASE f.k = "FetchRead" ->
         [k |-> "Ref", cell |-> [arch |-> f.ptr.arch, col |-> f.ptr.col, row |-> n],
          sub |-> <<>>]
    [] f.k = "FetchWrite" ->
         [k |-> "RefMut", cell |-> [arch |-> f.ptr.arch, col |-> f.ptr.col, row |-> n],
          sub |-> <<>>]
    [] f.k = "TryFetch" ->
         IF f.sub = <<>> THEN [k |-> "None", cell |-> NoCell, sub |-> <<>>]
         ELSE [k |-> "Some", cell |-> NoCell, sub |-> <<FetchGet(f.sub[1], n)>>]
    [] f.k = "FetchWithout" -> FetchGet(f.sub[1], n)
    [] f.k = "FetchWith" -> FetchGet(f.sub[1], n)
    [] f.k = "Tuple" ->
         [k |-> "Tuple", cell |-> NoCell,
          sub |-> [m \in 1..Len(f.sub) |-> FetchGet(f.sub[m], n)]]

\* =================================================================== state
Handles == {1, 2}

VARIABLES
  archetypes,  \* QueryBorrow.archetypes: the world's archetype slice
  meta,        \* QueryBorrow.meta: generation of every entity id
  cols,        \* per archetype, per column: the dynamic borrow state
  phase,       \* per handle: "live" | "dropped"
  desc,        \* per handle: Q of QueryBorrow<Q>
  borrowed,    \* per handle: QueryBorrow.borrowed
  panicMsg,    \* per handle: the panic its last call raised, if any
  iter,        \* per handle: the QueryIter / BatchedIter borrowing it
  batch,       \* per handle: the Batch last returned by BatchedIter::next
  yielded,     \* per handle: history, the pairs yielded so far
  emitted,     \* per handle: history, the Batches returned so far
  clean,       \* per handle: history, no Batch was left half consumed
  ended,       \* per handle: history, the last next() returned None
  acquired,    \* per handle: history, what its iteration call changed in cols
  transforms,  \* per handle: history, [n transforms, after: one followed iter]
  workers,     \* per handle, per worker: the Batch the worker consumes
  served       \* per handle: history, the bag of rows the workers' Batches yielded

vars == <<archetypes, meta, cols, phase, desc, borrowed, panicMsg, iter,
          batch, yielded, emitted, clean, ended, acquired, transforms,
          workers, served>>

NoPanic == "none"
PanicTwice == "called QueryBorrow::iter twice on the same borrow; construct a new query instead"
PanicBorrowed == "already borrowed"
PanicReject == "query fetch should always reject at the first batch or not at all"

NumArch == Len(archetypes)

\* Difference of two borrow states, per archetype and column
ColsDelta(before, after) ==
  [i \in 1..Len(before) |->
    [t \in Types |->
      [r |-> after[i][t].r - before[i][t].r,
       w |-> (IF after[i][t].w THEN 1 ELSE 0) - (IF before[i][t].w THEN 1 ELSE 0)]]]

ZeroDelta == [i \in 1..NumArch |-> [t \in Types |-> [r |-> 0, w |-> 0]]]

\* ------------------------------------------------------------- ChunkIter
\* entities = 0 is NonNull::dangling(); otherwise the index of the
\* archetype whose entity column it points at.
\* ChunkIter::EMPTY with a length of one row
ChunkIterEmptyLenOne(q) ==
  [entities |-> 0, fetch |-> FetchDangling(q), position |-> 0, len |-> 1]

ChunkIterEmpty(q) ==
  [entities |-> 0, fetch |-> FetchDangling(q), position |-> 0, len |-> 0]

NoItem == [k |-> "Dangling", cell |-> NoCell, sub |-> <<>>]
NoYield == [some |-> FALSE, id |-> 0, item |-> NoItem]
NoPair == [some |-> FALSE, entity |-> [id |-> 0, generation |-> 0], item |-> NoItem]
\* what a read through NonNull::dangling() stands for
Poison == 0 - 1

\* ChunkIterNext reading the entity column from its end
ChunkIterNextReversed(c) ==
  IF c.position = c.len THEN [chunk |-> c, ret |-> NoYield]
  ELSE [chunk |-> [c EXCEPT !.position = @ + 1],
        ret |-> [some |-> TRUE,
                 id |-> IF c.entities = 0 THEN Poison
                        ELSE ArchEntities(archetypes[c.entities])[c.len - c.position],
                 item |-> FetchGet(c.fetch, c.position)]]

\* ChunkIter::next: the chunk after the call and what the call returned
ChunkIterNext(c) ==
  IF c.position = c.len THEN [chunk |-> c, ret |-> NoYield]
  ELSE [chunk |-> [c EXCEPT !.position = @ + 1],
        ret |-> [some |-> TRUE,
                 id |-> IF c.entities = 0 THEN Poison
                        ELSE ArchEntities(archetypes[c.entities])[c.position + 1],
                 item |-> FetchGet(c.fetch, c.position)]]

\* ------------------------------------------------------------ QueryBorrow
RECURSIVE BorrowWalk(_, _, _)

\* BorrowWalk borrowing only where the access is above Read
BorrowWalkAboveRead(q, i, st) ==
  IF i > Len(st.cols) \/ ~st.ok THEN st
  ELSE IF FetchAccess(q, archetypes[i]) > Read
       THEN LET s == FetchBorrow(q, archetypes[i], [cols |-> st.cols[i], ok |-> TRUE])
            IN BorrowWalk(q, i + 1, [cols |-> [st.cols EXCEPT ![i] = s.cols], ok |-> s.ok])
       ELSE BorrowWalk(q, i + 1, st)
\* BorrowWalk borrowing on every archetype, whatever the access
BorrowWalkEveryArchetype(q, i, st) ==
  IF i > Len(st.cols) \/ ~st.ok THEN st
  ELSE LET s == FetchBorrow(q, archetypes[i], [cols |-> st.cols[i], ok |-> TRUE])
       IN BorrowWalk(q, i + 1, [cols |-> [st.cols EXCEPT ![i] = s.cols], ok |-> s.ok])
\* the loop of QueryBorrow::borrow over self.archetypes, from archetype i
BorrowWalk(q, i, st) ==
  IF i > Len(st.cols) \/ ~st.ok THEN st
  ELSE IF FetchAccess(q, archetypes[i]) >= Read
       THEN LET s == FetchBorrow(q, archetypes[i], [cols |-> st.cols[i], ok |-> TRUE])
            IN BorrowWalk(q, i + 1, [cols |-> [st.cols EXCEPT ![i] = s.cols], ok |-> s.ok])
       ELSE BorrowWalk(q, i + 1, st)

\* QueryBorrow::borrow undoing the borrows of the walk when it panics
QueryBorrowBorrowRollback(q, b, cs) ==
  IF b THEN [cols |-> cs, borrowed |-> TRUE, panic |-> PanicTwice]
  ELSE LET w == BorrowWalk(q, 1, [cols |-> cs, ok |-> TRUE])
       IN [cols |-> IF w.ok THEN w.cols ELSE cs, borrowed |-> w.ok,
           panic |-> IF w.ok THEN NoPanic ELSE PanicBorrowed]

\* QueryBorrow::borrow without the test of self.borrowed
QueryBorrowBorrowUnchecked(q, b, cs) ==
  LET w == BorrowWalk(q, 1, [cols |-> cs, ok |-> TRUE])
  IN [cols |-> w.cols, borrowed |-> w.ok,
      panic |-> IF w.ok THEN NoPanic ELSE PanicBorrowed]

\* QueryBorrow::borrow
QueryBorrowBorrow(q, b, cs) ==
  IF b THEN [cols |-> cs, borrowed |-> TRUE, panic |-> PanicTwice]
  ELSE LET w == BorrowWalk(q, 1, [cols |-> cs, ok |-> TRUE])
       IN [cols |-> w.cols, borrowed |-> w.ok,
           panic |-> IF w.ok THEN NoPanic ELSE PanicBorrowed]

RECURSIVE ReleaseWalk(_, _, _)
ReleaseWalk(q, i, cs) ==
  IF i > Len(cs) THEN cs
  ELSE IF FetchAccess(q, archetypes[i]) >= Read
       THEN ReleaseWalk(q, i + 1, [cs EXCEPT ![i] = FetchRelease(q, archetypes[i], @)])
       ELSE ReleaseWalk(q, i + 1, cs)

\* Drop that releases whether or not self.borrowed is set
QueryBorrowDropAlways(q, b, cs) == ReleaseWalk(q, 1, cs)

\* Drop for QueryBorrow
QueryBorrowDrop(q, b, cs) == IF b THEN ReleaseWalk(q, 1, cs) ELSE cs

\* QueryBorrowTransform returning a handle that counts as borrowed
QueryBorrowTransformBorrowed(b) == [self |-> FALSE, x |-> TRUE]

\* QueryBorrow::transform: the borrowed flag of the consumed handle (self)
\* and of the handle returned (x)
QueryBorrowTransform(b) == [self |-> FALSE, x |-> b]

\* ------------------------------------------------------------- iterators
NoChunk == [entities |-> 0, fetch |-> NoFetch, position |-> 0, len |-> 0]

NoIter ==
  [kind |-> "none", archetype_index |-> 0, batch_size |-> 0, batch |-> 0,
   chunk |-> NoChunk]

NoBatch == [live |-> FALSE, state |-> NoChunk]

\* The threads Batches are handed to; none holds a Batch
Workers == 1..MaxWorkers
NoWorkers == [w \in Workers |-> NoBatch]

\* QueryBorrow::iter, the value returned (iter.chunk is QueryIter.iter)
NewQueryIter(q) ==
  [kind |-> "iter", archetype_index |-> 0, batch_size |-> 0, batch |-> 0,
   chunk |-> ChunkIterEmpty(q)]

\* QueryBorrow::iter_batched, the value returned
NewBatchedIter(k) ==
  [kind |-> "batched", archetype_index |-> 0, batch_size |-> k, batch |-> 0,
   chunk |-> NoChunk]

Entity(id) ==
  [id |-> id, generation |-> IF id = Poison THEN Poison ELSE meta[id + 1]]

RECURSIVE QueryIterNext(_, _)
\* QueryIter::next: the iterator after the call and what the call returned
QueryIterNext(q, it) ==
  LET r == ChunkIterNext(it.chunk)
  IN IF ~r.ret.some
     THEN IF it.archetype_index >= NumArch
          THEN [it |-> [it EXCEPT !.chunk = r.chunk], ret |-> NoPair]
          ELSE LET i == it.archetype_index + 1
                   archetype == archetypes[i]
                   fetch == FetchNew(q, i, archetype)
               IN QueryIterNext(q,
                    [it EXCEPT !.archetype_index = @ + 1,
                               !.chunk = IF fetch = NoFetch THEN ChunkIterEmpty(q)
                                         ELSE [entities |-> i, fetch |-> fetch,
                                               position |-> 0,
                                               len |-> ArchLen(archetype)]])
     ELSE [it |-> [it EXCEPT !.chunk = r.chunk],
           ret |-> [some |-> TRUE, entity |-> Entity(r.ret.id), item |-> r.ret.item]]

RECURSIVE LenSum(_, _)
LenSum(q, i) ==
  IF i > NumArch THEN 0
  ELSE (IF FetchAccess(q, archetypes[i]) # AccessNone THEN ArchLen(archetypes[i]) ELSE 0)
       + LenSum(q, i + 1)

RECURSIVE LenSumBorrowed(_, _)
LenSumBorrowed(q, i) ==
  IF i > NumArch THEN 0
  ELSE (IF FetchAccess(q, archetypes[i]) >= Read THEN ArchLen(archetypes[i]) ELSE 0)
       + LenSumBorrowed(q, i + 1)

\* len() counting only the archetypes the query borrows
QueryIterLenBorrowed(q) == LenSumBorrowed(q, 1)

\* ExactSizeIterator::len for QueryIter
QueryIterLen(q) == LenSum(q, 1)

\* Iterator::size_hint for QueryIter
QueryIterSizeHint(q) == <<QueryIterLen(q), QueryIterLen(q)>>

Min(x, y) == IF x <= y THEN x ELSE y

RECURSIVE BatchedIterNext(_, _)

\* BatchedIterNext with `self.batch = 0` left out when an archetype is exhausted
BatchedIterNextNoReset(q, it) ==
  IF it.archetype_index >= NumArch THEN [it |-> it, ret |-> NoBatch, rejects |-> {}]
  ELSE LET i == it.archetype_index + 1
           archetype == archetypes[i]
           offset == (it.batch_size * it.batch) % U32
       IN IF offset >= ArchLen(archetype)
          THEN BatchedIterNext(q, [it EXCEPT !.archetype_index = @ + 1])
          ELSE LET fetch == FetchNew(q, i, archetype)
               IN IF fetch # NoFetch
                  THEN [it |-> [it EXCEPT !.batch = (@ + 1) % U32],
                        ret |-> [live |-> TRUE,
                                 state |-> [entities |-> i, fetch |-> fetch,
                                            len |-> (offset + Min(it.batch_size,
                                                       ArchLen(archetype) - offset)) % U32,
                                            position |-> offset]],
                        rejects |-> {}]
                  ELSE [BatchedIterNext(q, [it EXCEPT !.archetype_index = @ + 1])
                          EXCEPT !.rejects = @ \cup {it.batch}]
\* BatchedIterNext with every Batch starting at row 0 instead of at offset
BatchedIterNextFromZero(q, it) ==
  IF it.archetype_index >= NumArch THEN [it |-> it, ret |-> NoBatch, rejects |-> {}]
  ELSE LET i == it.archetype_index + 1
           archetype == archetypes[i]
           offset == (it.batch_size * it.batch) % U32
       IN IF offset >= ArchLen(archetype)
          THEN BatchedIterNext(q, [it EXCEPT !.archetype_index = @ + 1, !.batch = 0])
          ELSE LET fetch == FetchNew(q, i, archetype)
               IN IF fetch # NoFetch
                  THEN [it |-> [it EXCEPT !.batch = (@ + 1) % U32],
                        ret |-> [live |-> TRUE,
                                 state |-> [entities |-> i, fetch |-> fetch,
                                            len |-> (offset + Min(it.batch_size,
                                                       ArchLen(archetype) - offset)) % U32,
                                            position |-> 0]],
                        rejects |-> {}]
                  ELSE [BatchedIterNext(q, [it EXCEPT !.archetype_index = @ + 1])
                          EXCEPT !.rejects = @ \cup {it.batch}]
\* BatchedIterNext with `self.batch = 1` when an archetype is exhausted
BatchedIterNextResetToOne(q, it) ==
  IF it.archetype_index >= NumArch THEN [it |-> it, ret |-> NoBatch, rejects |-> {}]
  ELSE LET i == it.archetype_index + 1
           archetype == archetypes[i]
           offset == (it.batch_size * it.batch) % U32
       IN IF offset >= ArchLen(archetype)
          THEN BatchedIterNext(q, [it EXCEPT !.archetype_index = @ + 1, !.batch = 1])
          ELSE LET fetch == FetchNew(q, i, archetype)
               IN IF fetch # NoFetch
                  THEN [it |-> [it EXCEPT !.batch = (@ + 1) % U32],
                        ret |-> [live |-> TRUE,
                                 state |-> [entities |-> i, fetch |-> fetch,
                                            len |-> (offset + Min(it.batch_size,
                                                       ArchLen(archetype) - offset)) % U32,
                                            position |-> offset]],
                        rejects |-> {}]
                  ELSE [BatchedIterNext(q, [it EXCEPT !.archetype_index = @ + 1])
                          EXCEPT !.rejects = @ \cup {it.batch}]
\* BatchedIter::next: the iterator after the call, the Batch returned, and
\* (rejects) the values self.batch had where new() returned None, which the
\* debug assertion compares with 0
BatchedIterNext(q, it) ==
  IF it.archetype_index >= NumArch THEN [it |-> it, ret |-> NoBatch, rejects |-> {}]
  ELSE LET i == it.archetype_index + 1
           archetype == archetypes[i]
           offset == (it.batch_size * it.batch) % U32
       IN IF offset >= ArchLen(archetype)
          THEN BatchedIterNext(q, [it EXCEPT !.archetype_index = @ + 1, !.batch = 0])
          ELSE LET fetch == FetchNew(q, i, archetype)
               IN IF fetch # NoFetch
                  THEN [it |-> [it EXCEPT !.batch = (@ + 1) % U32],
                        ret |-> [live |-> TRUE,
                                 state |-> [entities |-> i, fetch |-> fetch,
                                            len |-> (offset + Min(it.batch_size,
                                                       ArchLen(archetype) - offset)) % U32,
                                            position |-> offset]],
                        rejects |-> {}]
                  ELSE [BatchedIterNext(q, [it EXCEPT !.archetype_index = @ + 1])
                          EXCEPT !.rejects = @ \cup {it.batch}]

\* Batch::next
BatchNext(b) ==
  LET r == ChunkIterNext(b.state)
  IN [batch |-> [b EXCEPT !.state = r.chunk],
      ret |-> IF r.ret.some
              THEN [some |-> TRUE, entity |-> Entity(r.ret.id), item |-> r.ret.item]
              ELSE NoPair]

\* ==================================================================== Init
A == "A"
B == "B"

\* The query types the handle of Spec is built for
IterQueries ==
  { QRead(A), QWrite(A),
    QOption(QRead(B)),
    QOption(QWith(B, QWrite(A))),
    QWith(B, QRead(A)),
    QWithout(B, QRead(A)),
    QTuple(<<>>),
    QTuple(<<QRead(A), QRead(B)>>),
    QTuple(<<QOption(QRead(B)), QRead(A)>>),
    QTuple(<<QOption(QWrite(B)), QWith(A, QTuple(<<>>))>>),
    QTuple(<<QRead(A), QRead(A)>>) }

\* The query types the first handle of SpecBorrow is built for
Queries ==
  IterQueries \cup
  { QRead(B),
    QWithout(B, QWrite(A)),
    QTuple(<<QWrite(A), QRead(B)>>),
    QTuple(<<QWrite(A), QRead(A)>>),
    QTuple(<<QRead(A), QWrite(A)>>),
    QTuple(<<QWrite(A), QWrite(A)>>),
    QTuple(<<QTuple(<<QWrite(B), QWrite(B)>>), QWrite(A)>>) }

\* The query types of the second handle of SpecBorrow
OtherQueries ==
  { QRead(A), QWrite(A), QWrite(B), QTuple(<<QOption(QRead(B)), QRead(A)>>) }

BatchSizes == 0..MaxBatchSize

\* Row counts of the archetypes of Spec
RowCounts == {0, MaxRows - 1, MaxRows}

\* The component types with / without are called with in SpecBorrow
FilterTypes == {B}

\* One archetype per distinct set of component types
TypeSeqs ==
  {s \in [1..MaxArch -> SUBSET Types] :
     \A i, j \in 1..MaxArch : i # j => s[i] # s[j]}

RECURSIVE SumTo(_, _)
SumTo(ls, i) == IF i = 0 THEN 0 ELSE ls[i] + SumTo(ls, i - 1)

\* Entity ids are distinct and index meta; later rows hold smaller ids.
MkEntities(ls, i) ==
  [r \in 1..ls[i] |-> SumTo(ls, Len(ls)) - (SumTo(ls, i - 1) + r)]

MkWorld(ts, ls) ==
  [i \in 1..MaxArch |->
     [types |-> ts[i], len |-> ls[i], entities |-> MkEntities(ls, i)]]

MkMeta(ls) == [n \in 1..SumTo(ls, Len(ls)) |-> 1 + (n % 2)]

InitWorld(lens) ==
  \E ts \in TypeSeqs, ls \in [1..MaxArch -> lens] :
    /\ archetypes = MkWorld(ts, ls)
    /\ meta = MkMeta(ls)
    /\ cols = [i \in 1..MaxArch |-> [t \in Types |-> FreeColumn]]

InitHandles(live) ==
  /\ phase = [h \in Handles |-> IF h \in live THEN "live" ELSE "absent"]
  /\ borrowed = [h \in Handles |-> FALSE]
  /\ panicMsg = [h \in Handles |-> NoPanic]
  /\ iter = [h \in Handles |-> NoIter]
  /\ batch = [h \in Handles |-> NoBatch]
  /\ yielded = [h \in Handles |-> <<>>]
  /\ emitted = [h \in Handles |-> <<>>]
  /\ clean = [h \in Handles |-> TRUE]
  /\ ended = [h \in Handles |-> FALSE]
  /\ acquired = [h \in Handles |-> ZeroDelta]
  /\ transforms = [h \in Handles |-> [n |-> 0, after |-> FALSE]]
  /\ workers = [h \in Handles |-> NoWorkers]
  /\ served = [h \in Handles |-> EmptyBag]

\* One query over a world of archetypes of every length
Init ==
  /\ InitWorld(RowCounts)
  /\ InitHandles({1})
  /\ \E q \in IterQueries : desc = [h \in Handles |-> q]

\* Two queries alive over the same archetype set
InitBorrow ==
  /\ InitWorld({1})
  /\ InitHandles(Handles)
  /\ \E q \in Queries, o \in OtherQueries : desc = [h \in Handles |-> IF h = 1 THEN q ELSE o]

\* ================================================================= actions
Usable(h) == phase[h] = "live" /\ panicMsg[h] = NoPanic /\ iter[h].kind = "none"

ResetHistory(h) ==
  /\ yielded' = [yielded EXCEPT ![h] = <<>>]
  /\ emitted' = [emitted EXCEPT ![h] = <<>>]
  /\ clean' = [clean EXCEPT ![h] = TRUE]
  /\ ended' = [ended EXCEPT ![h] = FALSE]
  /\ served' = [served EXCEPT ![h] = EmptyBag]

\* self.borrow() of iter / iter_batched, then the iterator `it` is built
Execute(h, it) ==
  LET r == QueryBorrowBorrow(desc[h], borrowed[h], cols)
  IN /\ cols' = r.cols
     /\ borrowed' = [borrowed EXCEPT ![h] = r.borrowed]
     /\ panicMsg' = [panicMsg EXCEPT ![h] = r.panic]
     /\ iter' = [iter EXCEPT ![h] = IF r.panic = NoPanic THEN it ELSE NoIter]
     /\ acquired' = [acquired EXCEPT ![h] = IF borrowed[h] THEN @ ELSE ColsDelta(cols, r.cols)]
     /\ batch' = [batch EXCEPT ![h] = NoBatch]
     /\ workers' = [workers EXCEPT ![h] = NoWorkers]
     /\ ResetHistory(h)
     /\ UNCHANGED <<archetypes, meta, phase, desc, transforms>>

\* QueryBorrow::iter
CallIter(h) ==
  /\ Usable(h)
  /\ Execute(h, NewQueryIter(desc[h]))

\* QueryBorrow::iter_batched
CallIterBatched(h, k) ==
  /\ Usable(h)
  /\ Execute(h, NewBatchedIter(k))

\* QueryIter::next
CallQueryIterNext(h) ==
  /\ iter[h].kind = "iter"
  /\ LET r == QueryIterNext(desc[h], iter[h])
     IN /\ iter' = [iter EXCEPT ![h] = r.it]
        /\ yielded' = [yielded EXCEPT ![h] =
             IF r.ret.some THEN Append(@, <<r.ret.entity, r.ret.item>>) ELSE @]
        /\ ended' = [ended EXCEPT ![h] = ~r.ret.some]
  /\ UNCHANGED <<archetypes, meta, cols, phase, desc, borrowed, panicMsg, batch,
                 emitted, clean, acquired, transforms, workers, served>>

\* BatchedIter::next; the Batch returned before is dropped. A failed
\* debug_assert_eq!(self.batch, 0) is recorded as the panic of the call.
CallBatchedIterNext(h) ==
  /\ iter[h].kind = "batched"
  /\ iter[h].batch_size > 0 \/ iter[h].batch < MaxBatchIndex
  /\ LET r == BatchedIterNext(desc[h], iter[h])
         c == clean[h] /\ (batch[h].live => batch[h].state.position = batch[h].state.len)
     IN /\ iter' = [iter EXCEPT ![h] = r.it]
        /\ batch' = [batch EXCEPT ![h] = r.ret]
        /\ emitted' = [emitted EXCEPT ![h] = IF r.ret.live THEN Append(@, r.ret.state) ELSE @]
        /\ clean' = [clean EXCEPT ![h] = c]
        /\ yielded' = [yielded EXCEPT ![h] = IF c THEN @ ELSE <<>>]
        /\ ended' = [ended EXCEPT ![h] = ~r.ret.live]
        /\ panicMsg' = [panicMsg EXCEPT ![h] = IF r.rejects \subseteq {0} THEN @ ELSE PanicReject]
  /\ UNCHANGED <<archetypes, meta, cols, phase, desc, borrowed,
                 acquired, transforms, workers, served>>

\* Batch::next
CallBatchNext(h) ==
  /\ batch[h].live
  /\ LET r == BatchNext(batch[h])
     IN /\ batch' = [batch EXCEPT ![h] = r.batch]
        /\ yielded' = [yielded EXCEPT ![h] =
             IF clean[h] /\ r.ret.some THEN Append(@, <<r.ret.entity, r.ret.item>>) ELSE @]
  /\ UNCHANGED <<archetypes, meta, cols, phase, desc, borrowed, panicMsg, iter,
                 emitted, clean, ended, acquired, transforms, workers, served>>

\* DropIterator releasing the handle's borrows with the iterator
DropIteratorReleasing(h) ==
  /\ iter[h].kind # "none"
  /\ iter' = [iter EXCEPT ![h] = NoIter]
  /\ batch' = [batch EXCEPT ![h] = NoBatch]
  /\ workers' = [workers EXCEPT ![h] = NoWorkers]
  /\ cols' = QueryBorrowDrop(desc[h], borrowed[h], cols)
  /\ borrowed' = [borrowed EXCEPT ![h] = FALSE]
  /\ ResetHistory(h)
  /\ UNCHANGED <<archetypes, meta, phase, desc, panicMsg, acquired, transforms>>

\* The QueryIter / BatchedIter (and its Batch) goes out of scope, which
\* ends the &mut borrow of the handle
DropIterator(h) ==
  /\ iter[h].kind # "none"
  /\ iter' = [iter EXCEPT ![h] = NoIter]
  /\ batch' = [batch EXCEPT ![h] = NoBatch]
  /\ workers' = [workers EXCEPT ![h] = NoWorkers]
  /\ ResetHistory(h)
  /\ UNCHANGED <<archetypes, meta, cols, phase, desc, borrowed, panicMsg,
                 acquired, transforms>>

\* with / without -> transform: a handle of type r replaces self, and self
\* is dropped at the end of transform
Transform(h, r) ==
  /\ Usable(h)
  /\ transforms[h].n < MaxTransforms
  /\ LET tr == QueryBorrowTransform(borrowed[h])
     IN /\ cols' = QueryBorrowDrop(desc[h], tr.self, cols)
        /\ borrowed' = [borrowed EXCEPT ![h] = tr.x]
  /\ desc' = [desc EXCEPT ![h] = r]
  /\ transforms' = [transforms EXCEPT ![h] = [n |-> @.n + 1, after |-> @.after \/ borrowed[h]]]
  /\ UNCHANGED <<archetypes, meta, phase, panicMsg, iter, batch, yielded, emitted,
                 clean, ended, acquired, workers, served>>

\* QueryBorrow::with
CallWith(h, t) == Transform(h, QWith(t, desc[h]))

\* QueryBorrow::without
CallWithout(h, t) == Transform(h, QWithout(t, desc[h]))

\* The handle goes out of scope (also while a panic unwinds): Drop::drop
DropQueryBorrow(h) ==
  /\ phase[h] = "live"
  /\ iter[h].kind = "none"
  /\ cols' = QueryBorrowDrop(desc[h], borrowed[h], cols)
  /\ phase' = [phase EXCEPT ![h] = "dropped"]
  /\ UNCHANGED <<archetypes, meta, desc, borrowed, panicMsg, iter, batch, yielded,
                 emitted, clean, ended, acquired, transforms, workers, served>>

\* Worker w has no Batch, or has consumed the one it holds
Idle(h, w) ==
  workers[h][w].live => workers[h][w].state.position = workers[h][w].state.len

\* BatchedIter::next driven by one thread; the Batch returned is handed to
\* the first idle worker
HandOut(h, w) ==
  /\ iter[h].kind = "batched"
  /\ Idle(h, w)
  /\ \A v \in Workers : v < w => ~Idle(h, v)
  /\ iter[h].batch_size > 0 \/ iter[h].batch < MaxBatchIndex
  /\ LET r == BatchedIterNext(desc[h], iter[h])
     IN /\ iter' = [iter EXCEPT ![h] = r.it]
        /\ workers' = [workers EXCEPT ![h][w] = IF r.ret.live THEN r.ret ELSE @]
        /\ emitted' = [emitted EXCEPT ![h] = IF r.ret.live THEN Append(@, r.ret.state) ELSE @]
        /\ ended' = [ended EXCEPT ![h] = ~r.ret.live]
        /\ panicMsg' = [panicMsg EXCEPT ![h] = IF r.rejects \subseteq {0} THEN @ ELSE PanicReject]
  /\ UNCHANGED <<archetypes, meta, cols, phase, desc, borrowed, batch,
                 yielded, clean, acquired, transforms, served>>

\* Batch::next on the Batch worker w holds
WorkerBatchNext(h, w) ==
  /\ workers[h][w].live
  /\ LET r == BatchNext(workers[h][w])
     IN /\ workers' = [workers EXCEPT ![h][w] = r.batch]
        /\ served' = [served EXCEPT ![h] =
             IF r.ret.some THEN @ (+) SetToBag({r.ret.entity}) ELSE @]
  /\ UNCHANGED <<archetypes, meta, cols, phase, desc, borrowed, panicMsg, iter,
                 batch, yielded, emitted, clean, ended, acquired, transforms>>

\* BatchedIter::next with no history kept of the Batches returned
CallBatchedIterNextUnlogged(h) ==
  /\ iter[h].kind = "batched"
  /\ LET r == BatchedIterNext(desc[h], iter[h])
     IN /\ iter' = [iter EXCEPT ![h] = r.it]
        /\ batch' = [batch EXCEPT ![h] = r.ret]
        /\ ended' = [ended EXCEPT ![h] = ~r.ret.live]
        /\ panicMsg' = [panicMsg EXCEPT ![h] = IF r.rejects \subseteq {0} THEN @ ELSE PanicReject]
  /\ UNCHANGED <<archetypes, meta, cols, phase, desc, borrowed, yielded, emitted,
                 clean, acquired, transforms, workers, served>>

\* ========================================================== specifications
\* Spec: one handle, executed and consumed row by row
Next ==
  \E h \in Handles :
    \/ CallIter(h)
    \/ \E k \in BatchSizes : CallIterBatched(h, k)
    \/ CallQueryIterNext(h)
    \/ CallBatchedIterNext(h)
    \/ CallBatchNext(h)
    \/ DropIterator(h)
    \/ DropQueryBorrow(h)

Spec == Init /\ [][Next]_vars

\* SpecBorrow: two handles over one world; borrows, transforms and drops
NextBorrow ==
  \/ \E h \in Handles :
       \/ CallIter(h)
       \/ DropIterator(h)
       \/ DropQueryBorrow(h)
  \/ CallIterBatched(1, 1)
  \/ \E t \in FilterTypes : CallWith(1, t)
  \/ \E t \in FilterTypes : CallWithout(1, t)

SpecBorrow == InitBorrow /\ [][NextBorrow]_vars

\* SpecBatches: one BatchedIter driven by one thread, its Batches consumed by
\* several workers in any interleaving
BatchQueries ==
  { QRead(A), QTuple(<<QRead(A), QRead(B)>>) }

InitBatches ==
  /\ InitWorld(RowCounts)
  /\ InitHandles({1})
  /\ \E q \in BatchQueries : desc = [h \in Handles |-> q]

NextBatches ==
  \E h \in Handles :
    \/ \E k \in BatchSizes \ {0} : CallIterBatched(h, k)
    \/ \E w \in Workers : HandOut(h, w)
    \/ \E w \in Workers : WorkerBatchNext(h, w)
    \/ DropIterator(h)

SpecBatches == InitBatches /\ [][NextBatches]_vars

\* SpecTransform: one handle, narrowed by with / without and iterated
NextTransform ==
  \E h \in Handles :
    \/ CallIter(h)
    \/ CallQueryIterNext(h)
    \/ DropIterator(h)
    \/ DropQueryBorrow(h)
    \/ \E t \in FilterTypes : CallWith(h, t)
    \/ \E t \in FilterTypes : CallWithout(h, t)

SpecTransform == Init /\ [][NextTransform]_vars

\* SpecLarge: archetypes as long as a u32 length allows, the iterator driven
\* until it returns None
LargeRowCounts == {MaxRows, U32 - 1}

LargeQueries == { QRead(A) }

InitLarge ==
  /\ InitWorld(LargeRowCounts)
  /\ InitHandles({1})
  /\ \E q \in LargeQueries : desc = [h \in Handles |-> q]

\* The consumer's loop: `for x in iter` calls next() until it returns None
ConsumeLarge ==
  \E h \in Handles :
    \/ CallQueryIterNext(h)
    \/ CallBatchedIterNextUnlogged(h)

NextLarge ==
  \/ \E h \in Handles :
       \/ CallIter(h)
       \/ \E k \in BatchSizes \ {0} : CallIterBatched(h, k)
  \/ ConsumeLarge

SpecLarge == InitLarge /\ [][NextLarge]_vars /\ WF_vars(ConsumeLarge)

\* ================================================================== claims
\* Applicability of a query on an archetype, as the documentation of the
\* query types states it.
RECURSIVE Applicable(_, _)
Applicable(q, a) ==
  CASE q.k \in {"Read", "Write"} -> q.t \in a.types
    [] q.k = "Option" -> TRUE
    [] q.k = "With" -> q.t \in a.types /\ Applicable(q.sub[1], a)
    [] q.k = "Without" -> q.t \notin a.types /\ Applicable(q.sub[1], a)
    [] q.k = "Tuple" -> \A n \in 1..Len(q.sub) : Applicable(q.sub[n], a)

\* The rows (archetype, row) of the world, and those a query must yield
Rows == {x \in (1..NumArch) \X (1..MaxRows + 1) : x[2] <= archetypes[x[1]].len}
RowsOf(q) == {x \in Rows : Applicable(q, archetypes[x[1]])}
RowEntity(x) ==
  [id |-> archetypes[x[1]].entities[x[2]],
   generation |-> meta[archetypes[x[1]].entities[x[2]] + 1]]

Drained(h) == iter[h].kind = "iter" /\ ended[h]

\* C1: a drained QueryIter has yielded exactly one pair for every row of
\* every archetype the query is applicable on, and no pair for any other row.
C1_Completeness ==
  \A h \in Handles :
    Drained(h) =>
      /\ \A x \in Rows :
           Cardinality({n \in DOMAIN yielded[h] : yielded[h][n][1] = RowEntity(x)})
             = IF x \in RowsOf(desc[h]) THEN 1 ELSE 0
      /\ Len(yielded[h]) = Cardinality(RowsOf(desc[h]))

C1_Witness ==
  /\ Drained(1)
  /\ Len(yielded[1]) >= 2
  /\ \E x \in Rows : x \notin RowsOf(desc[1])
  /\ desc[1].k = "Without"

\* C7: len() of a QueryIter is the number of rows of the archetypes whose
\* access is not None, and a fresh iterator yields exactly that many items.
C7_FreshLen ==
  \A h \in Handles :
    iter[h].kind = "iter" =>
      /\ QueryIterLen(desc[h])
           = Cardinality({x \in Rows : FetchAccess(desc[h], archetypes[x[1]]) # AccessNone})
      /\ ended[h] => Len(yielded[h]) = QueryIterLen(desc[h])

C7_Witness ==
  /\ Drained(1)
  /\ Len(yielded[1]) >= 2
  /\ desc[1] = QTuple(<<QOption(QRead(B)), QRead(A)>>)
  /\ \E i \in 1..NumArch : FetchAccess(desc[1], archetypes[i]) = AccessNone /\ archetypes[i].len > 0

\* The number of items a QueryIter has still to yield
RECURSIVE Remaining(_, _)
Remaining(q, it) ==
  LET r == QueryIterNext(q, it)
  IN IF r.ret.some THEN 1 + Remaining(q, r.it) ELSE 0

\* C8: at every point of the consumption, len() and both bounds of
\* size_hint() are the number of items still to be yielded.
C8_LenIsRemaining ==
  \A h \in Handles :
    iter[h].kind = "iter" =>
      /\ QueryIterLen(desc[h]) = Remaining(desc[h], iter[h])
      /\ QueryIterSizeHint(desc[h]) = <<Remaining(desc[h], iter[h]), Remaining(desc[h], iter[h])>>

\* What iter() yields on the same world and query, drained
RECURSIVE DrainQueryIter(_, _)
DrainQueryIter(q, it) ==
  LET r == QueryIterNext(q, it)
  IN IF r.ret.some THEN <<<<r.ret.entity, r.ret.item>>>> \o DrainQueryIter(q, r.it)
     ELSE <<>>

BatchesDone(h) ==
  /\ iter[h].kind = "batched"
  /\ ended[h]
  /\ clean[h]

C10_ZeroBatchSize ==
  \A h \in Handles :
    (iter[h].kind = "batched" /\ iter[h].batch_size = 0) =>
      \A n \in DOMAIN emitted[h] : emitted[h][n].position < emitted[h][n].len

\* ----------------------------------------------------------- borrow claims
\* The leaves of a descriptor, in order: <<column, "R" | "W">>
RECURSIVE LeafSeq(_)
RECURSIVE LeafSeqOf(_, _)
LeafSeqOf(qs, n) == IF n > Len(qs) THEN <<>> ELSE LeafSeq(qs[n]) \o LeafSeqOf(qs, n + 1)
LeafSeq(q) ==
  CASE q.k = "Read" -> <<<<q.t, "R">>>>
    [] q.k = "Write" -> <<<<q.t, "W">>>>
    [] OTHER -> LeafSeqOf(q.sub, 1)

\* The columns of archetype a a handle of type q borrows, with their modes
BorrowsIn(q, a) ==
  IF FetchAccess(q, a) >= Read
  THEN {LeafSeq(q)[n] : n \in {m \in DOMAIN LeafSeq(q) : LeafSeq(q)[m][1] \in a.types}}
  ELSE {}

\* Some column of some archetype is borrowed by both, by one exclusively
CrossConflict(q1, q2) ==
  \E i \in 1..NumArch, t \in Types :
    LET b1 == {l \in BorrowsIn(q1, archetypes[i]) : l[1] = t}
        b2 == {l \in BorrowsIn(q2, archetypes[i]) : l[1] = t}
    IN b1 # {} /\ b2 # {} /\ (<<t, "W">> \in b1 \/ <<t, "W">> \in b2)

\* The query names a column it borrows twice, once at least exclusively
SelfConflict(q) ==
  \E i \in 1..NumArch, t \in Types :
    /\ <<t, "W">> \in BorrowsIn(q, archetypes[i])
    /\ Cardinality({n \in DOMAIN LeafSeq(q) : LeafSeq(q)[n][1] = t}) >= 2

\* This step is h's first iter() / iter_batched() call
ExecStep(h) ==
  /\ Usable(h)
  /\ ~borrowed[h]
  /\ phase'[h] = "live"
  /\ panicMsg'[h] # NoPanic \/ iter'[h].kind # "none"

\* Handle o is alive and has made its first call, with the type it still has
Executed(o) ==
  /\ phase[o] = "live"
  /\ ~transforms[o].after
  /\ borrowed[o] \/ panicMsg[o] = PanicBorrowed

\* C2 as stated: of two live handles, both calls succeed if every column both
\* borrow is read by both; the second call panics if one of them writes a
\* column both borrow.
C2_TwoHandles ==
  [][\A h, o \in Handles :
       (h # o /\ Executed(o) /\ ExecStep(h)) =>
         IF CrossConflict(desc[h], desc[o])
         THEN panicMsg'[h] = PanicBorrowed
         ELSE panicMsg'[h] = NoPanic /\ panicMsg[o] # PanicBorrowed]_vars

\* C2, amended: the same, for two queries neither of which conflicts with
\* itself (names a column it borrows twice, once at least exclusively).
C2_TwoHandlesNoSelfConflict ==
  [][\A h, o \in Handles :
       (h # o /\ Executed(o) /\ ExecStep(h)
          /\ ~SelfConflict(desc[h]) /\ ~SelfConflict(desc[o])) =>
         IF CrossConflict(desc[h], desc[o])
         THEN panicMsg'[h] = PanicBorrowed /\ ~borrowed'[h] /\ borrowed[o]
         ELSE panicMsg'[h] = NoPanic /\ borrowed'[h] /\ borrowed[o]]_vars

C2_Witness ==
  /\ phase[1] = "live" /\ phase[2] = "live"
  /\ ~SelfConflict(desc[1]) /\ ~SelfConflict(desc[2])
  /\ borrowed[2] /\ ~transforms[1].after
  /\ \/ panicMsg[1] = PanicBorrowed /\ CrossConflict(desc[1], desc[2])
        /\ desc[1] = QRead(A) /\ desc[2] = QWrite(A)
     \/ borrowed[1] /\ ~CrossConflict(desc[1], desc[2])
        /\ desc[1] = QTuple(<<QWrite(A), QRead(B)>>) /\ desc[2] = QWrite(B)
        /\ \E i \in 1..NumArch : archetypes[i].types = {B}

AllFree == [i \in 1..NumArch |-> [t \in Types |-> FreeColumn]]
NeverExecuted(o) == ~borrowed[o] /\ panicMsg[o] = NoPanic

\* A tuple of two leaves over the same component type
AliasPair(q) ==
  /\ q.k = "Tuple"
  /\ Len(q.sub) = 2
  /\ q.sub[1].k \in {"Read", "Write"}
  /\ q.sub[2].k \in {"Read", "Write"}
  /\ q.sub[1].t = q.sub[2].t

\* C3: executing (&mut T, &T) or (&mut T, &mut T) panics with "already
\* borrowed" before any row is yielded if some archetype has T; executing
\* (&T, &T) succeeds when no other handle holds a borrow.
C3_AliasInOneQuery ==
  [][\A h \in Handles :
       (ExecStep(h) /\ AliasPair(desc[h])) =>
         /\ ("Write" \in {desc[h].sub[1].k, desc[h].sub[2].k} /\ \E i \in 1..NumArch : desc[h].sub[1].t \in archetypes[i].types) =>
              /\ panicMsg'[h] = PanicBorrowed
              /\ iter'[h].kind = "none"
              /\ yielded'[h] = <<>>
              /\ ~borrowed'[h]
         /\ (desc[h].sub[1].k = "Read" /\ desc[h].sub[2].k = "Read" /\ cols = AllFree) =>
              /\ panicMsg'[h] = NoPanic
              /\ iter'[h].kind # "none"
              /\ borrowed'[h]]_vars

C3_Witness ==
  /\ AliasPair(desc[1])
  /\ desc[1].sub[1].k = "Write"
  /\ panicMsg[1] = PanicBorrowed
  /\ NeverExecuted(2)
  /\ \E i \in 1..NumArch : archetypes[i].len > 0 /\ A \in archetypes[i].types

DropStep(h) == phase[h] = "live" /\ phase'[h] = "dropped"

\* C4: the drop of a handle that was iterated (and not transformed since)
\* undoes in every column exactly what its iteration call did; the drop of
\* a handle that holds no completed iteration changes no column.
C4_ReleaseMirrorsBorrow ==
  [][\A h \in Handles :
       DropStep(h) =>
         /\ (borrowed[h] /\ ~transforms[h].after) => ColsDelta(cols', cols) = acquired[h]
         /\ ~borrowed[h] => cols' = cols]_vars

C4_Witness ==
  /\ phase[1] = "dropped"
  /\ borrowed[1]
  /\ ~transforms[1].after
  /\ \E i \in 1..NumArch : acquired[1][i][A].w = 1 /\ acquired[1][i][B].r = 1
  /\ borrowed[2] /\ phase[2] = "live"

\* C5: once a handle that was iterated and then transformed by with /
\* without is dropped, every column counter is back at its value before
\* iter() (here: free, no other handle having borrowed anything).
C5_OwnershipTransfer ==
  \A h \in Handles :
    (/\ phase[h] = "dropped"
     /\ transforms[h].after
     /\ \A o \in Handles \ {h} : NeverExecuted(o)) => cols = AllFree

\* h has completed an iteration call, on this handle or on the one it was
\* transformed from
Iterated(h) == borrowed[h] \/ transforms[h].after

\* C6: a further iter() / iter_batched() call on a handle that was iterated
\* panics, returns no iterator and changes no borrow; so the borrows change
\* in a call only if the handle was not iterated before.
C6_OneShot ==
  [][\A h \in Handles :
       (Usable(h) /\ Iterated(h) /\ phase'[h] = "live"
          /\ (panicMsg'[h] # NoPanic \/ iter'[h].kind # "none")) =>
         /\ panicMsg'[h] = PanicTwice
         /\ iter'[h].kind = "none"
         /\ cols' = cols
         /\ borrowed'[h]
         /\ acquired'[h] = acquired[h]]_vars

C6_Witness ==
  /\ panicMsg[1] = PanicTwice
  /\ transforms[1].after
  /\ phase[1] = "live"
  /\ cols # AllFree

RECURSIVE RowSeq(_, _)
RowSeq(q, i) ==
  IF i > NumArch THEN <<>>
  ELSE (IF Applicable(q, archetypes[i])
        THEN [r \in 1..archetypes[i].len |-> <<i, r>>]
        ELSE <<>>) \o RowSeq(q, i + 1)

\* C12: the n-th pair a QueryIter yields is the n-th row of the query in
\* archetype order and, within an archetype, ascending row order; the
\* sequence is a function of the world state alone.
C12_YieldOrder ==
  \A h \in Handles :
    iter[h].kind = "iter" =>
      /\ Len(yielded[h]) <= Len(RowSeq(desc[h], 1))
      /\ \A n \in DOMAIN yielded[h] :
           yielded[h][n][1] = RowEntity(RowSeq(desc[h], 1)[n])

C12_Witness ==
  /\ Drained(1)
  /\ Len(yielded[1]) >= 5
  /\ \A i \in 1..NumArch : Applicable(desc[1], archetypes[i]) /\ archetypes[i].len >= 2

\* ------------------------------------------------------- transform claims
\* Handle h was narrowed by with / without before its first iteration call
NarrowedFresh(h) == transforms[h].n > 0 /\ ~transforms[h].after

\* C13: with::<T>() / without::<T>() on a handle not yet iterated gives a
\* handle in the state QueryBorrow::new gives for With<T, Q> / Without<T, Q>;
\* its iter() acquires what the direct form acquires, its drop releases
\* exactly that, and drained it has yielded what the direct form yields.
C13_TransformEquivalence ==
  [][\A h \in Handles :
       /\ (Usable(h) /\ ~Iterated(h) /\ desc'[h] # desc[h]) =>
            /\ \E t \in Types : desc'[h] \in {QWith(t, desc[h]), QWithout(t, desc[h])}
            /\ ~borrowed'[h]
            /\ panicMsg'[h] = NoPanic
            /\ cols' = cols
       /\ (Usable(h) /\ NarrowedFresh(h) /\ iter'[h].kind = "iter") =>
            LET r == QueryBorrowBorrow(desc[h], FALSE, cols)
            IN /\ cols' = r.cols
               /\ borrowed'[h] = r.borrowed
               /\ acquired'[h] = ColsDelta(cols, r.cols)
       /\ (DropStep(h) /\ NarrowedFresh(h) /\ borrowed[h]) =>
            ColsDelta(cols', cols) = acquired[h]
       /\ (Drained(h) /\ NarrowedFresh(h)) =>
            yielded[h] = DrainQueryIter(desc[h], NewQueryIter(desc[h]))]_vars

C13_Witness ==
  /\ Drained(1)
  /\ NarrowedFresh(1)
  /\ desc[1] = QWith(B, QRead(A))
  /\ Len(yielded[1]) >= 2
  /\ \E i \in 1..NumArch : archetypes[i].types = {A} /\ archetypes[i].len > 0
  /\ \E i \in 1..NumArch : acquired[1][i][A].r = 1

\* ---------------------------------------------------------- filter claims
\* Descriptor q names column t in a leaf
Mentions(q, t) == \E n \in DOMAIN LeafSeq(q) : LeafSeq(q)[n][1] = t

\* q is With<T, Q> or Without<T, Q> with Q not mentioning T
PureFilter(q) == q.k \in {"With", "Without"} /\ ~Mentions(q.sub[1], q.t)

\* C14: the first iteration call of a handle of type With<T, Q> or
\* Without<T, Q>, Q not mentioning T, leaves the borrow state of the T column
\* of every archetype unchanged, and it succeeds while the only other borrows
\* held are another handle's borrows of T columns, exclusive ones included.
C14_FiltersDoNotBorrow ==
  [][\A h \in Handles :
       (ExecStep(h) /\ PureFilter(desc[h])) =>
         /\ \A i \in 1..NumArch : cols'[i][desc[h].t] = cols[i][desc[h].t]
         /\ \A i \in 1..NumArch : acquired'[h][i][desc[h].t] = [r |-> 0, w |-> 0]
         /\ (/\ ~SelfConflict(desc[h])
             /\ \A i \in 1..NumArch, u \in Types \ {desc[h].t} : cols[i][u] = FreeColumn) =>
              /\ panicMsg'[h] = NoPanic
              /\ borrowed'[h]]_vars

C14_Witness ==
  /\ borrowed[1] /\ phase[1] = "live"
  /\ desc[1] = QWith(B, QRead(A))
  /\ borrowed[2] /\ phase[2] = "live"
  /\ desc[2] = QWrite(B)
  /\ \E i \in 1..NumArch :
       /\ archetypes[i].types = {A, B}
       /\ cols[i][B] = [r |-> 0, w |-> TRUE]
       /\ cols[i][A] = [r |-> 1, w |-> FALSE]

\* -------------------------------------------------------- lifetime claims
\* C15: while a handle that completed iter() / iter_batched() is alive, no
\* step (next() on the iterator or a Batch, exhaustion, the drop of a
\* QueryIter, BatchedIter or Batch consumed or not) changes a borrow: the
\* columns hold exactly what the call acquired until the handle is dropped.
C15_BorrowsOutliveIterators ==
  [][\A h \in Handles :
       (borrowed[h] /\ phase[h] = "live" /\ phase'[h] = "live") =>
         /\ cols' = cols
         /\ borrowed'[h]
         /\ ColsDelta(AllFree, cols') = acquired[h]]_vars

C15_Witness ==
  /\ borrowed[1] /\ phase[1] = "live"
  /\ iter[1].kind = "batched"
  /\ ~clean[1]
  /\ ended[1]
  /\ \E i \in 1..NumArch : cols[i][A].w /\ acquired[1][i][A].w = 1

\* ------------------------------------------------------- rollback claims
\* How many leaves of q borrow column t in mode m ("R" | "W")
LeafCount(q, t, m) == Cardinality({n \in DOMAIN LeafSeq(q) : LeafSeq(q)[n] = <<t, m>>})

\* What a completed borrow of q adds to the columns of archetype a
FullDelta(q, a) ==
  [t \in Types |->
    IF FetchAccess(q, a) >= Read /\ t \in a.types
    THEN [r |-> LeafCount(q, t, "R"), w |-> LeafCount(q, t, "W")]
    ELSE [r |-> 0, w |-> 0]]

\* Borrowing q on archetype i conflicts with the borrows held or with itself
ConflictsOn(q, i) ==
  /\ FetchAccess(q, archetypes[i]) >= Read
  /\ \E t \in archetypes[i].types :
       \/ /\ LeafCount(q, t, "W") > 0
          /\ \/ cols[i][t].w \/ cols[i][t].r > 0
             \/ LeafCount(q, t, "W") + LeafCount(q, t, "R") >= 2
       \/ LeafCount(q, t, "R") > 0 /\ cols[i][t].w

PanicStep(h) == ExecStep(h) /\ panicMsg'[h] = PanicBorrowed

\* C16: when iter() / iter_batched() panics on a conflict, with j the first
\* conflicting archetype, the borrows of every archetype before j stay fully
\* acquired, those of j partly, none after j is touched, the borrowed flag
\* stays false; and the drop of that handle releases nothing.
C16_NoRollback ==
  [][\A h \in Handles :
       /\ PanicStep(h) =>
            /\ ~borrowed'[h]
            /\ acquired'[h] = ColsDelta(cols, cols')
            /\ \E j \in 1..NumArch :
                 /\ ConflictsOn(desc[h], j)
                 /\ \A i \in 1..NumArch :
                      /\ i < j => /\ ~ConflictsOn(desc[h], i)
                                  /\ acquired'[h][i] = FullDelta(desc[h], archetypes[i])
                      /\ i > j => acquired'[h][i] = [t \in Types |-> [r |-> 0, w |-> 0]]
                      /\ i = j => \A t \in Types :
                                    /\ acquired'[h][i][t].r \in 0..FullDelta(desc[h], archetypes[i])[t].r
                                    /\ acquired'[h][i][t].w \in 0..FullDelta(desc[h], archetypes[i])[t].w
       /\ (DropStep(h) /\ panicMsg[h] = PanicBorrowed) => cols' = cols]_vars

C16_Witness ==
  /\ phase[1] = "dropped" /\ phase[2] = "dropped"
  /\ panicMsg[1] = PanicBorrowed
  /\ borrowed[2]
  /\ desc[1] = QTuple(<<QOption(QRead(B)), QRead(A)>>)
  /\ acquired[1][1][A].r = 1
  /\ cols[1][A].r = 1

\* -------------------------------------------------------- optional claims
\* The row an entity lives in
RowOf(e) == CHOOSE x \in Rows : RowEntity(x) = e

\* The item a query q alone yields for row x of an archetype it applies to
ItemOf(q, x) == FetchGet(FetchNew(q, x[1], archetypes[x[1]]), x[2] - 1)

\* The positions of the Option members of a tuple, and the tuple without them
OptionMembers(q) == {p \in DOMAIN q.sub : q.sub[p].k = "Option"}
WithoutOptions(q) == QTuple(SelectSeq(q.sub, LAMBDA m : m.k # "Option"))

\* The item of an Option<Q> member is Some(Q's item) on the rows of the
\* archetypes Q applies to and None on the others
OptionItemOk(o, item, x) ==
  IF Applicable(o.sub[1], archetypes[x[1]])
  THEN item.k = "Some" /\ item.sub = <<ItemOf(o.sub[1], x)>>
  ELSE item.k = "None"

\* C17: Option<Q>, alone or as a tuple member, excludes no archetype: its
\* item is Some(inner item) where Q is applicable and None elsewhere, and the
\* entities yielded are those of the query without its Option members (all
\* entities if the query is an Option alone).
C17_OptionalComponents ==
  \A h \in Handles :
    iter[h].kind = "iter" =>
      /\ desc[h].k = "Option" =>
           /\ \A n \in DOMAIN yielded[h] :
                OptionItemOk(desc[h], yielded[h][n][2], RowOf(yielded[h][n][1]))
           /\ ended[h] => {yielded[h][n][1] : n \in DOMAIN yielded[h]} = {RowEntity(x) : x \in Rows}
      /\ (desc[h].k = "Tuple" /\ OptionMembers(desc[h]) # {}) =>
           /\ \A n \in DOMAIN yielded[h], p \in OptionMembers(desc[h]) :
                OptionItemOk(desc[h].sub[p], yielded[h][n][2].sub[p], RowOf(yielded[h][n][1]))
           /\ ended[h] =>
                LET d == DrainQueryIter(WithoutOptions(desc[h]), NewQueryIter(WithoutOptions(desc[h])))
                IN [n \in DOMAIN yielded[h] |-> yielded[h][n][1]] = [n \in DOMAIN d |-> d[n][1]]

C17_Witness ==
  /\ Drained(1)
  /\ desc[1] = QTuple(<<QOption(QRead(B)), QRead(A)>>)
  /\ \E n \in DOMAIN yielded[1] : yielded[1][n][2].sub[1].k = "Some"
  /\ \E n \in DOMAIN yielded[1] : yielded[1][n][2].sub[1].k = "None"

\* ---------------------------------------------------------- access claims
\* The leaf views (&T, &mut T) inside an item
RECURSIVE ItemLeaves(_)
ItemLeaves(item) ==
  IF item.k \in {"Ref", "RefMut"} THEN {[k |-> item.k, cell |-> item.cell]}
  ELSE UNION {ItemLeaves(item.sub[m]) : m \in DOMAIN item.sub}

\* C18: every shared (exclusive) view a QueryIter or Batch has yielded points
\* into a column of an archetype on which the query's access is at least
\* Read and of which the handle holds a shared (exclusive) borrow acquired by
\* its iteration call.
C18_AccessUnderBorrow ==
  \A h \in Handles :
    iter[h].kind # "none" =>
      \A n \in DOMAIN yielded[h] :
        \A v \in ItemLeaves(yielded[h][n][2]) :
          /\ v.cell.arch \in 1..NumArch
          /\ v.cell.col \in archetypes[v.cell.arch].types
          /\ FetchAccess(desc[h], archetypes[v.cell.arch]) >= Read
          /\ borrowed[h]
          /\ v.k = "Ref" =>
               /\ acquired[h][v.cell.arch][v.cell.col].r >= 1
               /\ cols[v.cell.arch][v.cell.col].r >= 1
               /\ ~cols[v.cell.arch][v.cell.col].w
          /\ v.k = "RefMut" =>
               /\ acquired[h][v.cell.arch][v.cell.col].w = 1
               /\ cols[v.cell.arch][v.cell.col] = [r |-> 0, w |-> TRUE]

C18_Witness ==
  /\ iter[1].kind = "batched"
  /\ desc[1] = QTuple(<<QOption(QWrite(B)), QWith(A, QTuple(<<>>))>>)
  /\ \E n \in DOMAIN yielded[1] : yielded[1][n][2].sub[1].k = "Some"
  /\ \E n \in DOMAIN yielded[1] : yielded[1][n][2].sub[1].k = "None"

\* ------------------------------------------------------- agreement claims
\* A descriptor and the descriptors it is built from
RECURSIVE SubDescs(_)
SubDescs(q) == {q} \cup UNION {SubDescs(q.sub[m]) : m \in DOMAIN q.sub}

\* The descriptors around the one of handle h: its parts and its filters
DescsAround(h) ==
  SubDescs(desc[h]) \cup {QWith(t, desc[h]) : t \in Types}
                    \cup {QWithout(t, desc[h]) : t \in Types}

\* The archetypes with rows that len() counts for q
Counted(q) ==
  {i \in 1..NumArch : FetchAccess(q, archetypes[i]) # AccessNone /\ archetypes[i].len > 0}

\* C19: on every archetype, new returns a fetch exactly if access is not
\* None; so the archetypes with rows an exhausted QueryIter or BatchedIter
\* has traversed are exactly those len() counts.
C19_AccessNewAgree ==
  \A h \in Handles :
    /\ \A q \in DescsAround(h), i \in 1..NumArch :
         (FetchNew(q, i, archetypes[i]) # NoFetch) <=> (FetchAccess(q, archetypes[i]) # AccessNone)
    /\ Drained(h) =>
         {RowOf(yielded[h][n][1])[1] : n \in DOMAIN yielded[h]} = Counted(desc[h])
    /\ (iter[h].kind = "batched" /\ iter[h].batch_size >= 1 /\ ended[h]) =>
         {emitted[h][n].entities : n \in DOMAIN emitted[h]} = Counted(desc[h])

C19_Witness ==
  /\ iter[1].kind = "batched" /\ iter[1].batch_size >= 1 /\ ended[1]
  /\ desc[1] = QWithout(B, QRead(A))
  /\ \E i \in 1..NumArch : archetypes[i].types = {A, B} /\ archetypes[i].len > 0
  /\ \E i \in 1..NumArch : archetypes[i].types = {A} /\ archetypes[i].len > 0
  /\ Len(emitted[1]) >= 2

\* ------------------------------------------------------- threshold claims
\* The access of a descriptor as the documentation states it: a tuple's is
\* the maximum of its members' if none of them is None, and None otherwise
RECURSIVE DeclAccess(_, _)
DeclAccess(q, a) ==
  CASE q.k = "Read" -> IF q.t \in a.types THEN Read ELSE AccessNone
    [] q.k = "Write" -> IF q.t \in a.types THEN Write ELSE AccessNone
    [] q.k = "Option" ->
         IF DeclAccess(q.sub[1], a) = AccessNone THEN Iterate ELSE DeclAccess(q.sub[1], a)
    [] q.k = "With" -> IF q.t \in a.types THEN DeclAccess(q.sub[1], a) ELSE AccessNone
    [] q.k = "Without" -> IF q.t \in a.types THEN AccessNone ELSE DeclAccess(q.sub[1], a)
    [] q.k = "Tuple" ->
         LET ms == {DeclAccess(q.sub[m], a) : m \in DOMAIN q.sub}
         IN IF AccessNone \in ms THEN AccessNone
            ELSE CHOOSE x \in ms \cup {Iterate} : \A y \in ms \cup {Iterate} : y <= x

\* C20: the first iteration call of a handle changes no column of an
\* archetype whose access is None or Iterate, and if it succeeds it has
\* borrowed, on exactly the archetypes whose access is Read or Write, each
\* column its leaves name.
C20_BorrowThreshold ==
  [][\A h \in Handles :
       ExecStep(h) =>
         \A i \in 1..NumArch :
           /\ FetchAccess(desc[h], archetypes[i]) = DeclAccess(desc[h], archetypes[i])
           /\ DeclAccess(desc[h], archetypes[i]) < Read =>
                /\ cols'[i] = cols[i]
                /\ acquired'[h][i] = [t \in Types |-> [r |-> 0, w |-> 0]]
           /\ (DeclAccess(desc[h], archetypes[i]) >= Read /\ panicMsg'[h] = NoPanic) =>
                acquired'[h][i] =
                  [t \in Types |->
                    IF t \in archetypes[i].types
                    THEN [r |-> LeafCount(desc[h], t, "R"), w |-> LeafCount(desc[h], t, "W")]
                    ELSE [r |-> 0, w |-> 0]]]_vars

C20_Witness ==
  /\ borrowed[1] /\ phase[1] = "live"
  /\ desc[1] = QTuple(<<QWrite(A), QRead(B)>>)
  /\ NeverExecuted(2)
  /\ \E i \in 1..NumArch : archetypes[i].types = {A} /\ cols[i][A] = FreeColumn
  /\ \E i \in 1..NumArch : archetypes[i].types = {A, B} /\ cols[i][A].w /\ cols[i][B].r = 1

\* ---------------------------------------------------------- bounds claims
\* A ChunkIter of handle h is either EMPTY and untouched, or walks rows
\* position..len-1 of an archetype through a fetch new() built for it
ChunkInBounds(h, c) ==
  /\ c.position <= c.len
  /\ c.entities = 0 => c = ChunkIterEmpty(desc[h])
  /\ c.entities # 0 =>
       /\ c.entities \in 1..NumArch
       /\ c.len <= ArchLen(archetypes[c.entities])
       /\ c.fetch # NoFetch
       /\ c.fetch = FetchNew(desc[h], c.entities, archetypes[c.entities])

\* C21: the ChunkIter of every QueryIter and Batch keeps position <= len <=
\* the archetype's length over a fetch new() built for that archetype, the
\* EMPTY ChunkIter is never advanced, and every pair yielded was read from
\* an entity slot and cells of rows 0..len-1 of one archetype.
C21_ReadsInBounds ==
  \A h \in Handles :
    /\ iter[h].kind = "iter" => ChunkInBounds(h, iter[h].chunk)
    /\ batch[h].live => ChunkInBounds(h, batch[h].state)
    /\ \A n \in DOMAIN emitted[h] : ChunkInBounds(h, emitted[h][n])
    /\ \A n \in DOMAIN yielded[h] :
         /\ yielded[h][n][1].id # Poison
         /\ \A v \in ItemLeaves(yielded[h][n][2]) :
              /\ v.cell.arch = RowOf(yielded[h][n][1])[1]
              /\ v.cell.row = RowOf(yielded[h][n][1])[2] - 1
              /\ v.cell.row \in 0..(ArchLen(archetypes[v.cell.arch]) - 1)

C21_Witness ==
  /\ Drained(1)
  /\ iter[1].chunk = ChunkIterEmpty(desc[1])
  /\ Len(yielded[1]) = MaxRows
  /\ ItemLeaves(yielded[1][MaxRows][2]) # {}

\* ----------------------------------------------------- batch index claims
\* C22: from every state a BatchedIter reaches, the archetypes its next call
\* skips because new() returns None are skipped with self.batch = 0, and no
\* call has failed the debug assertion; an archetype of which a Batch was
\* emitted is never rejected afterwards.
C22_RejectAtBatchZero ==
  \A h \in Handles :
    iter[h].kind = "batched" =>
      /\ BatchedIterNext(desc[h], iter[h]).rejects \subseteq {0}
      /\ panicMsg[h] # PanicReject
      /\ \A n \in DOMAIN emitted[h] :
           FetchNew(desc[h], emitted[h][n].entities, archetypes[emitted[h][n].entities]) # NoFetch

C22_Witness ==
  /\ iter[1].kind = "batched"
  /\ iter[1].batch_size = 1
  /\ iter[1].batch = 2
  /\ Len(emitted[1]) = 2
  /\ BatchedIterNext(desc[1], iter[1]).rejects = {0}
  /\ \E i \in 1..NumArch : ~Applicable(desc[1], archetypes[i]) /\ archetypes[i].len = MaxRows

\* ----------------------------------------------------- termination claims
\* C23: an iterator that keeps being called returns None after finitely
\* many calls (QueryIter, and BatchedIter of batch size >= 1), and once a
\* call has returned None every later call returns None.
C23_Terminates ==
  /\ \A h \in Handles :
       [](((iter[h].kind = "iter") \/ (iter[h].kind = "batched" /\ iter[h].batch_size >= 1))
            => <>ended[h])
  /\ [][\A h \in Handles : ended[h] => ended'[h]]_vars

\* C24: for batch size >= 1 the product batch_size * batch that the next
\* call of BatchedIter::next computes is below 2^w, and the Batch a call
\* returned starts at row batch_size * (the Batches returned before it for
\* its archetype), so no row range is returned again.
C24_NoWraparound ==
  \A h \in Handles :
    (iter[h].kind = "batched" /\ iter[h].batch_size >= 1) =>
      /\ iter[h].archetype_index < NumArch => iter[h].batch_size * iter[h].batch < U32
      /\ batch[h].live =>
           /\ batch[h].state.position = iter[h].batch_size * (iter[h].batch - 1)
           /\ batch[h].state.len <= U32 - 1

====
